---------------------------- MODULE Spec2Model ----------------------------
(***************************************************************************)
(* ComfyS3: the S3 client (src/src/client_s3.py) and its save-path         *)
(* resolver, S3.get_save_path.                                             *)
(*                                                                         *)
(* A Python str is modelled as a sequence of one-character strings, so     *)
(* that slicing, splitting, prefix tests and int() parsing are computed    *)
(* character by character, the way the code computes them.  os.path is     *)
(* posixpath.  The bucket is a function from keys to the content last      *)
(* written under the key; every boto3 call is one atomic step of the       *)
(* store and may fail (the client catches the exception).                  *)
(***************************************************************************)
EXTENDS Integers, Sequences, FiniteSets, TLC

(***************************************************************************)
(* Python str operations                                                   *)
(***************************************************************************)
Min(a, b) == IF a <= b THEN a ELSE b

\* s[:n] for n >= 0
Take(s, n) == IF n <= 0 THEN << >> ELSE SubSeq(s, 1, Min(n, Len(s)))

\* s[n:] for n >= 0
Drop(s, n) == IF n >= Len(s) THEN << >> ELSE SubSeq(s, n + 1, Len(s))

\* s.startswith(p)
StartsWith(s, p) == Len(p) <= Len(s) /\ SubSeq(s, 1, Len(p)) = p

\* s.endswith(c) for a one-character c
EndsWith(s, c) == Len(s) > 0 /\ s[Len(s)] = c

\* s.find(c): the first index (from 1) of character c in s, 0 when absent
Find(s, c) ==
    IF \E i \in 1..Len(s) : s[i] = c
    THEN CHOOSE i \in 1..Len(s) : s[i] = c /\ \A j \in 1..(i - 1) : s[j] # c
    ELSE 0

\* s.rfind(c) + 1: the last index (from 1) of character c in s, 0 when absent
RFind(s, c) ==
    IF \E i \in 1..Len(s) : s[i] = c
    THEN CHOOSE i \in 1..Len(s) : s[i] = c /\ \A j \in (i + 1)..Len(s) : s[j] # c
    ELSE 0

\* s.split(c)[0]
SplitFirst(s, c) == IF Find(s, c) = 0 THEN s ELSE Take(s, Find(s, c) - 1)

\* s.split(c): the list of the pieces between the occurrences of c
RECURSIVE Split(_, _)
Split(s, c) ==
    IF Find(s, c) = 0 THEN << s >>
    ELSE << Take(s, Find(s, c) - 1) >> \o Split(Drop(s, Find(s, c)), c)

\* c.join(parts)
RECURSIVE JoinWith(_, _)
JoinWith(parts, c) ==
    IF parts = << >> THEN << >>
    ELSE IF Len(parts) = 1 THEN parts[1]
    ELSE parts[1] \o << c >> \o JoinWith(Tail(parts), c)

\* s.replace(tok, rep): left to right, occurrences do not overlap
RECURSIVE Replace(_, _, _)
Replace(s, tok, rep) ==
    IF s = << >> THEN << >>
    ELSE IF StartsWith(s, tok) THEN rep \o Replace(Drop(s, Len(tok)), tok, rep)
    ELSE << s[1] >> \o Replace(Tail(s), tok, rep)

\* s.strip(): int() ignores surrounding whitespace
RECURSIVE LStrip(_)
LStrip(s) == IF s # << >> /\ s[1] = " " THEN LStrip(Tail(s)) ELSE s

RECURSIVE RStrip(_, _)
RStrip(s, c) == IF EndsWith(s, c) THEN RStrip(Take(s, Len(s) - 1), c) ELSE s

Strip(s) == RStrip(LStrip(s), " ")

DigitChars == << "0", "1", "2", "3", "4", "5", "6", "7", "8", "9" >>

IsDigit(c) == \E i \in 1..10 : DigitChars[i] = c

DigitVal(c) == (CHOOSE i \in 1..10 : DigitChars[i] = c) - 1

RECURSIVE DigitsVal(_)
DigitsVal(s) ==
    IF s = << >> THEN 0
    ELSE 10 * DigitsVal(Take(s, Len(s) - 1)) + DigitVal(s[Len(s)])

\* int(s): optional whitespace around an optional sign and at least one
\* decimal digit; anything else raises ValueError (ok = FALSE)
PyInt(s) ==
    LET t    == Strip(s)
        sgn  == t # << >> /\ t[1] \in {"+", "-"}
        body == IF sgn THEN Tail(t) ELSE t
        ok   == body # << >> /\ \A i \in 1..Len(body) : IsDigit(body[i])
    IN  [ok  |-> ok,
         val |-> IF ~ok THEN 0
                 ELSE IF sgn /\ t[1] = "-" THEN 0 - DigitsVal(body)
                 ELSE DigitsVal(body)]

\* str(n) of an int
RECURSIVE NatStr(_)
NatStr(n) ==
    IF n < 10 THEN << DigitChars[n + 1] >>
    ELSE NatStr(n \div 10) \o << DigitChars[(n % 10) + 1] >>

Str(n) == IF n < 0 THEN << "-" >> \o NatStr(0 - n) ELSE NatStr(n)

(***************************************************************************)
(* posixpath                                                               *)
(***************************************************************************)
\* the loop of posixpath.normpath over the components
RECURSIVE NormComps(_, _, _)
NormComps(comps, acc, initial_slashes) ==
    IF comps = << >> THEN acc
    ELSE LET comp == comps[1]
             rest == Tail(comps)
         IN  IF comp = << >> \/ comp = << "." >>
             THEN NormComps(rest, acc, initial_slashes)
             ELSE IF comp # << ".", "." >>
                     \/ (initial_slashes = 0 /\ acc = << >>)
                     \/ (acc # << >> /\ acc[Len(acc)] = << ".", "." >>)
             THEN NormComps(rest, Append(acc, comp), initial_slashes)
             ELSE IF acc # << >>
             THEN NormComps(rest, Take(acc, Len(acc) - 1), initial_slashes)
             ELSE NormComps(rest, acc, initial_slashes)

\* os.path.normpath(path)
NormPath(path) ==
    IF path = << >> THEN << "." >>
    ELSE LET initial_slashes ==
                 IF ~StartsWith(path, << "/" >>) THEN 0
                 ELSE IF StartsWith(path, << "/", "/" >>)
                         /\ ~StartsWith(path, << "/", "/", "/" >>) THEN 2
                 ELSE 1
             joined == JoinWith(NormComps(Split(path, "/"), << >>, initial_slashes), "/")
             out == Take(<< "/", "/" >>, initial_slashes) \o joined
         IN  IF out = << >> THEN << "." >> ELSE out

\* os.path.basename(p)
BaseName(p) == Drop(p, RFind(p, "/"))

\* os.path.dirname(p)
DirName(p) ==
    LET head == Take(p, RFind(p, "/"))
    IN  IF head # << >> /\ \E i \in 1..Len(head) : head[i] # "/"
        THEN RStrip(head, "/") ELSE head

\* os.path.join(a, b)
PathJoin(a, b) ==
    IF StartsWith(b, << "/" >>) THEN b
    ELSE IF a = << >> \/ EndsWith(a, "/") THEN a \o b
    ELSE a \o << "/" >> \o b


(***************************************************************************)
(* The bucket: a function from keys to the content last written            *)
(***************************************************************************)
\* bucket.put_object / bucket.upload_file: the key now holds this content
PutObject(st, key, content) ==
    [k \in (DOMAIN st) \cup {key} |-> IF k = key THEN content ELSE st[k]]

\* bucket.objects.filter(Prefix=prefix): the keys that start with the prefix
FilterPrefix(st, prefix) == {k \in DOMAIN st : StartsWith(k, prefix)}

\* a listing that ignores the limit
LimitPagesUnlimited(keys, n) == {keys}

\* bucket.objects.filter(Prefix=prefix).limit(n): the pages the store may
\* return.  The code asks for no order, so the page is any n of the keys.
LimitPages(keys, n) ==
    {page \in SUBSET keys : Cardinality(page) = Min(n, Cardinality(keys))}

\* an existence check that looks for an object named as the folder itself
does_folder_exist_exact(st, folder_name, fail) ==
    IF fail THEN "None"
    ELSE IF folder_name \in DOMAIN st THEN "True" ELSE "False"

\* S3.does_folder_exist: "True" / "False", or "None" when the store call
\* raised (the exception is logged and the method falls off its end)
does_folder_exist(st, folder_name, fail) ==
    IF fail THEN "None"
    ELSE IF \E k \in FilterPrefix(st, folder_name) : StartsWith(k, folder_name)
    THEN "True" ELSE "False"

\* Python truth of does_folder_exist's return value
Truthy(v) == v = "True"

\* a marker written without its trailing "/"
create_folder_no_slash(st, folder_name, fail) ==
    IF fail THEN st ELSE PutObject(st, folder_name, "dir")

\* S3.create_folder: puts the marker folder_name + "/"; a store failure is
\* logged and leaves the bucket as it was
create_folder(st, folder_name, fail) ==
    IF fail THEN st ELSE PutObject(st, folder_name \o << "/" >>, "dir")

\* S3.get_files, after its does_folder_exist test passed: the page without
\* the keys that end in "/"; [] when the listing raised
get_files_page(page, fail) ==
    IF fail THEN {} ELSE {f \in page : ~EndsWith(f, "/")}

\* an upload that leaves an existing object in place
upload_file_keep_first(st, s3_path, content, fail) ==
    IF fail \/ s3_path \in DOMAIN st THEN st ELSE PutObject(st, s3_path, content)

\* S3.upload_file: the object is written unless the store call raised
upload_file(st, s3_path, content, fail) ==
    IF fail THEN st ELSE PutObject(st, s3_path, content)

(***************************************************************************)
(* S3.get_save_path                                                        *)
(***************************************************************************)
WidthToken == << "%", "w", "i", "d", "t", "h", "%" >>
HeightToken == << "%", "h", "e", "i", "g", "h", "t", "%" >>

\* compute_vars
compute_vars(input_str, image_width, image_height) ==
    Replace(Replace(input_str, WidthToken, Str(image_width)),
            HeightToken, Str(image_height))

\* map_filename: (digits, prefix) of a listed key; filename_prefix is the
\* substituted template
map_filename(filename, filename_prefix) ==
    LET prefix_len == Len(BaseName(filename_prefix))
        parsed == PyInt(SplitFirst(Drop(filename, prefix_len + 1), "_"))
    IN  [digits |-> IF parsed.ok THEN parsed.val ELSE 0,
         prefix |-> Take(filename, prefix_len + 1)]

\* a filter that does not test the separator
FilterLambdaNoSeparator(a, filename) ==
    Take(a.prefix, Len(a.prefix) - 1) = filename

\* the filter's lambda: a[1][:-1] == filename and a[1][-1] == "_"
FilterLambda(a, filename) ==
    /\ Take(a.prefix, Len(a.prefix) - 1) = filename
    /\ EndsWith(a.prefix, "_")

\* the lambda indexes a[1][-1] of an empty string (IndexError) when the
\* first conjunct holds of an empty prefix
LambdaRaises(a, filename) == a.prefix = << >> /\ filename = << >>

\* an except clause that misses ValueError
CaughtOnlyKeyError == {"KeyError"}

\* the exceptions the counter computation catches
CaughtExceptions == {"ValueError", "KeyError"}

SetMax(S) == CHOOSE m \in S : \A x \in S : x <= m

\* the try block of get_save_path: max of the filtered (digits, prefix)
\* pairs, plus 1.  The pairs that pass the filter share their prefix, so
\* the tuple order is the order of the digits.  max() of nothing raises
\* ValueError.
CounterOf(files, filename, filename_prefix) ==
    LET mapped == {map_filename(f, filename_prefix) : f \in files}
        kept   == {a \in mapped : FilterLambda(a, filename)}
        raised == IF \E a \in mapped : LambdaRaises(a, filename) THEN "IndexError"
                  ELSE IF kept = {} THEN "ValueError"
                  ELSE ""
    IN  IF raised = "" THEN [error |-> "", counter |-> SetMax({a.digits : a \in kept}) + 1]
        ELSE IF raised \in CaughtExceptions THEN [error |-> "", counter |-> 1]
        ELSE [error |-> raised, counter |-> 0]

\* the path arithmetic of get_save_path before its first store call
SavePath(root, req) ==
    LET filename_prefix == compute_vars(req.filename_prefix, req.image_width,
                                        req.image_height)
        subfolder == DirName(NormPath(filename_prefix))
    IN  [full_output_folder_s3 |-> PathJoin(root, subfolder),
         filename |-> BaseName(NormPath(filename_prefix)),
         subfolder |-> subfolder,
         filename_prefix |-> filename_prefix]

\* what get_save_path returns (or the exception it lets through) for the
\* files its listing gave
SavePathResult(root, req, files) ==
    LET sp == SavePath(root, req)
        c  == CounterOf(files, sp.filename, sp.filename_prefix)
    IN  [full_output_folder_s3 |-> sp.full_output_folder_s3,
         filename |-> sp.filename,
         counter |-> c.counter,
         subfolder |-> sp.subfolder,
         filename_prefix |-> sp.filename_prefix,
         error |-> c.error]

\* the name a save gives its object: filename_counter_.png
PngSuffix == << ".", "p", "n", "g" >>

SaveFile(filename, counter) ==
    filename \o << "_" >> \o Str(counter) \o << "_" >> \o PngSuffix

\* the key a save uploads to: the file joined to the returned folder
SaveKey(r) == PathJoin(r.full_output_folder_s3, SaveFile(r.filename, r.counter))

(***************************************************************************)
(* Bounds and inputs                                                       *)
(***************************************************************************)
\* saves the sequential worker performs
MaxSaves == 2

\* objects in the bucket when the sequential worker's first save starts
MaxInitKeys == 2

\* objects in the bucket when the two concurrent workers start
MaxConcKeys == 1

\* LIST_LIMIT_ITEMS when the environment does not set it
DefaultLimit == 100

Procs == {1, 2}

\* S3_OUTPUT_DIR: unset, or a folder
OutputDirs == {<< >>, << "o" >>}

\* LIST_LIMIT_ITEMS: a small cap, or the default
ListLimits == {2, DefaultLimit}

\* the (filename_prefix, image_width, image_height) a worker saves with
Requests ==
    {[filename_prefix |-> << "a" >>, image_width |-> 0, image_height |-> 0],
     [filename_prefix |-> << "s", "/", "a" >>, image_width |-> 0, image_height |-> 0],
     [filename_prefix |-> << "a" >> \o WidthToken, image_width |-> 1, image_height |-> 0]}

\* names of objects that may lie under the output root before the first
\* save: earlier outputs (a_1_.png, a_2_.png), a name whose counter segment
\* is no number (a_7.png) or is signed (a_-5_.png), and names of other
\* bases (a12_5_.png, z)
PoolNames ==
    {<< "a", "_", "1", "_" >> \o PngSuffix,
     << "a", "_", "2", "_" >> \o PngSuffix,
     << "a", "_", "7" >> \o PngSuffix,
     << "a", "_", "-", "5", "_" >> \o PngSuffix,
     << "a", "1", "2", "_", "5", "_" >> \o PngSuffix,
     << "z" >>}

PoolKeys(root) == {PathJoin(root, n) : n \in PoolNames}

\* the content a worker uploads
ContentOf(p) == IF p = 1 THEN "w1" ELSE "w2"

(***************************************************************************)
(* State                                                                   *)
(***************************************************************************)
VARIABLES
    output_dir,         \* S3.output_dir
    list_limit_items,   \* S3.list_limit_items
    request,            \* the arguments the workers call get_save_path with
    store,              \* the bucket
    pc,                 \* pc[p]: where worker p is in its save
    files,              \* files[p]: what get_files returned to p
    result,             \* result[p]: what get_save_path returned to p
    quota,              \* quota[p]: saves worker p may still start
    store0,             \* history: the bucket before the first save
    hFailed,            \* history: a store call of p's current save raised
    hListed,            \* history: the bucket when p's listing was taken
    hProv,              \* history: p's current folder provisioning
    hProvPrev,          \* history: p's provisioning of the save before
    hUploads            \* history: the uploads that succeeded, in order

vars == << output_dir, list_limit_items, request, store, pc, files, result,
           quota, store0, hFailed, hListed, hProv, hProvPrev, hUploads >>

config == << output_dir, list_limit_items, request, store0 >>

NoProv == [st |-> "none", before |-> << >>, after |-> << >>, wrote |-> 0,
           failed |-> FALSE]

NoResult == SavePathResult(<< >>, [filename_prefix |-> << >>, image_width |-> 0,
                                   image_height |-> 0], {})

\* The constructor's own provisioning (lines 24-27) swallows store failures,
\* so it promises nothing about the bucket: any bucket is a state after
\* construction.
InitWith(q, maxKeys) ==
    /\ output_dir \in OutputDirs
    /\ list_limit_items \in ListLimits
    /\ request \in Requests
    /\ \E ks \in SUBSET PoolKeys(output_dir) :
          /\ Cardinality(ks) <= maxKeys
          /\ store = [k \in ks |-> "pre"]
    /\ store0 = store
    /\ pc = [p \in Procs |-> "idle"]
    /\ files = [p \in Procs |-> {}]
    /\ result = [p \in Procs |-> NoResult]
    /\ quota = q
    /\ hFailed = [p \in Procs |-> FALSE]
    /\ hListed = [p \in Procs |-> << >>]
    /\ hProv = [p \in Procs |-> NoProv]
    /\ hProvPrev = [p \in Procs |-> NoProv]
    /\ hUploads = << >>

\* one worker saving MaxSaves times, one save after the other
Init == InitWith([p \in Procs |-> IF p = 1 THEN MaxSaves ELSE 0], MaxInitKeys)

Folder == SavePath(output_dir, request).full_output_folder_s3

(***************************************************************************)
(* A save, one store call per step                                         *)
(***************************************************************************)
\* get_save_path up to its does_folder_exist call (lines 155-162)
CheckFolder(p, fail) ==
    /\ pc[p] = "idle"
    /\ quota[p] > 0
    /\ quota' = [quota EXCEPT ![p] = @ - 1]
    /\ LET v == does_folder_exist(store, Folder, fail)
       IN  /\ pc' = [pc EXCEPT ![p] = IF Truthy(v) THEN "get_files" ELSE "create_folder"]
           /\ hProv' = [hProv EXCEPT ![p] =
                  [st |-> IF Truthy(v) THEN "done" ELSE "open", before |-> store,
                   after |-> store, wrote |-> 0, failed |-> fail]]
    /\ hProvPrev' = [hProvPrev EXCEPT ![p] = hProv[p]]
    /\ hFailed' = [hFailed EXCEPT ![p] = fail]
    /\ files' = [files EXCEPT ![p] = {}]
    /\ result' = [result EXCEPT ![p] = NoResult]
    /\ UNCHANGED << config, store, hListed, hUploads >>

\* get_save_path's create_folder call (line 163)
CreateFolder(p, fail) ==
    /\ pc[p] = "create_folder"
    /\ store' = create_folder(store, Folder, fail)
    /\ pc' = [pc EXCEPT ![p] = "get_files"]
    /\ hProv' = [hProv EXCEPT ![p] =
           [@ EXCEPT !.st = "done", !.after = store',
                     !.wrote = IF fail THEN 0 ELSE 1,
                     !.failed = @ \/ fail]]
    /\ hFailed' = [hFailed EXCEPT ![p] = @ \/ fail]
    /\ UNCHANGED << config, files, result, quota, hListed, hProvPrev, hUploads >>

\* get_files' does_folder_exist test (line 54); when it fails get_files
\* returns [] and get_save_path computes its counter (lines 168-180)
GetFilesCheck(p, fail) ==
    /\ pc[p] = "get_files"
    /\ LET v == does_folder_exist(store, Folder, fail)
       IN  IF Truthy(v)
           THEN /\ pc' = [pc EXCEPT ![p] = "list"]
                /\ UNCHANGED << files, result, hListed >>
           ELSE /\ pc' = [pc EXCEPT ![p] = "upload"]
                /\ files' = [files EXCEPT ![p] = {}]
                /\ result' = [result EXCEPT ![p] =
                       SavePathResult(output_dir, request, {})]
                /\ hListed' = [hListed EXCEPT ![p] = store]
    /\ hFailed' = [hFailed EXCEPT ![p] = @ \/ fail]
    /\ UNCHANGED << config, store, quota, hProv, hProvPrev, hUploads >>

\* get_files' listing (lines 56-62), then the counter (lines 168-180)
GetFilesList(p, fail) ==
    /\ pc[p] = "list"
    /\ \E page \in LimitPages(FilterPrefix(store, Folder), list_limit_items) :
          /\ files' = [files EXCEPT ![p] = get_files_page(page, fail)]
          /\ result' = [result EXCEPT ![p] =
                 SavePathResult(output_dir, request, get_files_page(page, fail))]
    /\ pc' = [pc EXCEPT ![p] = "upload"]
    /\ hListed' = [hListed EXCEPT ![p] = store]
    /\ hFailed' = [hFailed EXCEPT ![p] = @ \/ fail]
    /\ UNCHANGED << config, store, quota, hProv, hProvPrev, hUploads >>

\* the save's upload to the returned path
Upload(p, fail) ==
    /\ pc[p] = "upload"
    /\ LET skip == fail \/ result[p].error # ""
       IN  /\ store' = upload_file(store, SaveKey(result[p]), ContentOf(p), skip)
           /\ hUploads' = IF skip THEN hUploads
                          ELSE Append(hUploads, [p |-> p, key |-> SaveKey(result[p])])
    /\ pc' = [pc EXCEPT ![p] = "idle"]
    /\ hFailed' = [hFailed EXCEPT ![p] = @ \/ fail]
    /\ UNCHANGED << config, files, result, quota, hListed, hProv, hProvPrev >>

Next ==
    \E p \in Procs, fail \in BOOLEAN :
        \/ CheckFolder(p, fail)
        \/ CreateFolder(p, fail)
        \/ GetFilesCheck(p, fail)
        \/ GetFilesList(p, fail)
        \/ Upload(p, fail)

Spec == Init /\ [][Next]_vars

\* two workers, one save each, their store calls interleaved
InitConc == InitWith([p \in Procs |-> 1], MaxConcKeys)

SpecConc == InitConc /\ [][Next]_vars

(***************************************************************************)
(* Properties                                                              *)
(***************************************************************************)
\* get_save_path has returned to worker p, which has not uploaded yet
Returned(p) == pc[p] = "upload"

\* the base name get_save_path returned to p
BaseOf(p) == result[p].filename

\* a key is a candidate for a base name: the base name, then "_"
Candidate(f, base) ==
    /\ Len(f) > Len(base)
    /\ Take(f, Len(base)) = base
    /\ f[Len(base) + 1] = "_"

\* the text of a key between the "_" after the base name and the next "_"
CounterSegment(f, base) == SplitFirst(Drop(f, Len(base) + 1), "_")

\* a key of the folder that carries counter n for a base name
Carries(k, base, n) ==
    StartsWith(k, PathJoin(Folder, base \o << "_" >> \o Str(n) \o << "_" >>))

\* the folder holds no more objects than one listing returns
UnderCap(st) == Cardinality(FilterPrefix(st, Folder)) <= list_limit_items

\* C1: in a sequential run of saves whose folder stays within the listing
\* cap, the counter a save receives is carried by no object already stored
\* for that base name in that folder, whatever the output root.
C1_NoCounterReuse ==
    \A p \in Procs :
        (Returned(p) /\ ~hFailed[p] /\ UnderCap(store) /\ result[p].error = "")
        => ~\E k \in DOMAIN store : Carries(k, BaseOf(p), result[p].counter)

\* the counters n of the keys base_n.png under the folder
PngCounters(st, base) ==
    {n \in 0..9 : PathJoin(Folder, base \o << "_" >> \o Str(n) \o PngSuffix)
                      \in DOMAIN st}

\* C2: when the keys under the folder are base_n.png for decimal n,
\* get_save_path returns the largest n plus 1.
C2_LargestPlusOne ==
    \A p \in Procs :
        (/\ Returned(p) /\ ~hFailed[p] /\ UnderCap(hListed[p])
         /\ PngCounters(hListed[p], BaseOf(p)) # {}
         /\ files[p] = {PathJoin(Folder, BaseOf(p) \o << "_" >> \o Str(n) \o PngSuffix) :
                           n \in PngCounters(hListed[p], BaseOf(p))})
        => result[p].counter = SetMax(PngCounters(hListed[p], BaseOf(p))) + 1

\* the listed keys whose counter segment is no number
Unparsable(p) == {f \in files[p] : ~PyInt(CounterSegment(f, BaseOf(p))).ok}

\* C3: a listed key whose counter segment does not parse never makes
\* get_save_path raise, and the counter returned is the one returned for
\* the listing without those keys.
C3_UnparsableIgnored ==
    \A p \in Procs :
        Returned(p)
        => /\ result[p].error = ""
           /\ result[p].counter =
                  SavePathResult(output_dir, request, files[p] \ Unparsable(p)).counter

\* C4: a listed key passes the filter only if it is the base name followed
\* by "_", and the other listed keys never change the counter returned.
C4_OnlyCandidatesCount ==
    \A p \in Procs :
        Returned(p)
        => /\ \A f \in files[p] :
                  FilterLambda(map_filename(f, result[p].filename_prefix), BaseOf(p))
                  => Candidate(f, BaseOf(p))
           /\ result[p].counter =
                  SavePathResult(output_dir, request,
                                 {f \in files[p] : Candidate(f, BaseOf(p))}).counter

\* C4's case: a listed key shares the base name as a prefix without the
\* separator, beside a candidate that decides the counter
C4_Witness ==
    \E p \in Procs :
        /\ Returned(p)
        /\ \E f \in files[p] : StartsWith(f, BaseOf(p)) /\ ~Candidate(f, BaseOf(p))
        /\ \E g \in files[p] : Candidate(g, BaseOf(p))
        /\ result[p].counter > 1

\* C5: when the scan observes no candidate (an empty folder, only markers
\* or foreign keys, or a store failure during the existence check or the
\* listing), get_save_path returns counter 1 and raises nothing.
C5_NoCandidateGivesOne ==
    \A p \in Procs :
        (Returned(p) /\ ~\E f \in files[p] : Candidate(f, BaseOf(p)))
        => result[p].counter = 1 /\ result[p].error = ""

\* C5's case: the store failed during the scan of a folder that holds a
\* candidate, and the save got counter 1
C5_Witness ==
    \E p \in Procs :
        /\ Returned(p) /\ hFailed[p] /\ files[p] = {}
        /\ \E k \in FilterPrefix(hListed[p], Folder) : Candidate(k, BaseOf(p))
        /\ result[p].counter = 1

\* worker p provisioned the folder twice in sequence and nothing wrote to
\* the bucket in between
ProvisionedTwice(p) ==
    /\ hProvPrev[p].st = "done" /\ hProv[p].st = "done"
    /\ hProv[p].before = hProvPrev[p].after

\* no store call of p's two provisionings raised
ProvisionCallsOk(p) == ~hProvPrev[p].failed /\ ~hProv[p].failed

\* C6: provisioning a folder twice in sequence adds at most one object, the
\* marker prefix + "/", and removes none; when the store calls do not raise,
\* the second provisioning writes nothing and the bucket after it is the
\* bucket after the first.
C6_ProvisionIdempotent ==
    \A p \in Procs :
        ProvisionedTwice(p)
        => /\ (DOMAIN hProv[p].after) \ (DOMAIN hProvPrev[p].before)
                  \subseteq {Folder \o << "/" >>}
           /\ DOMAIN hProvPrev[p].before \subseteq DOMAIN hProv[p].after
           /\ ProvisionCallsOk(p)
                  => /\ hProv[p].wrote = 0
                     /\ hProv[p].after = hProvPrev[p].after
                     /\ hProvPrev[p].after =
                            IF hProvPrev[p].wrote = 1
                            THEN PutObject(hProvPrev[p].before, Folder \o << "/" >>, "dir")
                            ELSE hProvPrev[p].before

\* C6's case: the first provisioning wrote the marker, the second followed
C6_Witness ==
    \E p \in Procs :
        ProvisionedTwice(p) /\ ProvisionCallsOk(p) /\ hProvPrev[p].wrote = 1

\* both workers have provisioned the folder and no upload has been stored
BothProvisioned ==
    /\ \A p \in Procs : hProv[p].st = "done"
    /\ hUploads = << >>

\* C7: when two workers provision the same folder with their existence
\* checks and marker writes interleaved, no key but the marker is added and
\* none is removed; when the store calls do not raise, the bucket ends as
\* the bucket they started from plus, when the folder was absent, the one
\* marker.
C7_ConcurrentProvision ==
    BothProvisioned
    => /\ (DOMAIN store) \ (DOMAIN store0) \subseteq {Folder \o << "/" >>}
       /\ DOMAIN store0 \subseteq DOMAIN store
       /\ (\A p \in Procs : ~hProv[p].failed)
              => store = IF \E k \in DOMAIN store0 : StartsWith(k, Folder)
                         THEN store0
                         ELSE PutObject(store0, Folder \o << "/" >>, "dir")

\* C7's case: both workers saw the folder absent and both wrote the marker
C7_Witness ==
    /\ BothProvisioned
    /\ \A p \in Procs : ~hProv[p].failed /\ hProv[p].wrote = 1
    /\ Cardinality({k \in DOMAIN store : EndsWith(k, "/")}) = 1

\* the last upload stored under a key
LastUpload(key) ==
    CHOOSE i \in 1..Len(hUploads) :
        /\ hUploads[i].key = key
        /\ \A j \in (i + 1)..Len(hUploads) : hUploads[j].key # key

\* C8: nothing reserves a counter: two workers whose listings agree get the
\* same counter and the same key, and of the uploads stored under one key
\* the bucket keeps the last (the earlier upload succeeded and is gone).
C8_LastWriterWins ==
    /\ \A p, q \in Procs :
           (Returned(p) /\ Returned(q) /\ files[p] = files[q])
           => SaveKey(result[p]) = SaveKey(result[q])
    /\ \A i \in 1..Len(hUploads) :
           /\ hUploads[i].key \in DOMAIN store
           /\ store[hUploads[i].key] = ContentOf(hUploads[LastUpload(hUploads[i].key)].p)

\* C8's case: both workers scanned a folder holding an earlier output, got
\* the same counter past it, and uploaded to the same key with no failure
C8_Witness ==
    /\ Len(hUploads) = 2
    /\ hUploads[1].p # hUploads[2].p
    /\ hUploads[1].key = hUploads[2].key
    /\ store[hUploads[2].key] = ContentOf(hUploads[2].p)
    /\ \A p \in Procs : ~hFailed[p] /\ result[p].counter > 1
    /\ result[1].counter = result[2].counter

\* C9: the scan observes at most list_limit_items keys, all under the
\* folder, and the counter is computed from the observed keys alone.
C9_ScanIsCapped ==
    \A p \in Procs :
        Returned(p)
        => /\ Cardinality(files[p]) <= list_limit_items
           /\ files[p] \subseteq FilterPrefix(hListed[p], Folder)
           /\ result[p] = SavePathResult(output_dir, request, files[p])

\* C9's case: the cap is 2, the folder holds three candidates, and the
\* counter returned is carried by a candidate outside the scanned window
C9_Witness ==
    \E p \in Procs :
        /\ Returned(p) /\ ~hFailed[p]
        /\ list_limit_items = 2
        /\ Cardinality({k \in FilterPrefix(hListed[p], Folder) :
                            Candidate(k, BaseOf(p))}) >= 3
        /\ Cardinality(files[p]) <= 2
        /\ \E k \in FilterPrefix(hListed[p], Folder) \ files[p] :
               Candidate(k, BaseOf(p)) /\ Carries(k, BaseOf(p), result[p].counter)

\* C10: the counter get_save_path returns is an integer of at least 1.
C10_CounterAtLeastOne ==
    \A p \in Procs :
        Returned(p) => result[p].error = "" /\ result[p].counter >= 1

=============================================================================
